---- MODULE Spec2Model ----
(***************************************************************************)
(* The recommendation endpoint of the board-game catalog backend           *)
(* (recommendations.py, recommend_board_games): one request runs           *)
(* retrieval, prompt construction, the completion call, JSON parsing and   *)
(* validation of the model output, catalog reconciliation and response     *)
(* assembly.  Every behaviour of the model is one request.                 *)
(*                                                                         *)
(* Python values are encoded as follows.  An Optional value is a sequence  *)
(* of length at most one (<<>> is None, <<v>> is the value v).  A text     *)
(* returned by the model is a sequence of lexical tokens; a decoded JSON   *)
(* value is a record [type, s, n, items, fields].                          *)
(***************************************************************************)
EXTENDS Integers, Sequences, FiniteSets, TLC

(***************************************************************************)
(* Bounds of the model.                                                    *)
(***************************************************************************)
\* how far below zero a requested retrieval_limit is drawn
MaxUnder == 1
\* how far above the cap a requested retrieval_limit is drawn
MaxOver == 2
\* the largest number of metadata entries a query returns
MaxItems == 2
\* the longest recommended_game_names list the model returns
MaxNames == 2
\* the largest number of rows of the board_games table
MaxCatalog == 2

(***************************************************************************)
(* Program constants.                                                      *)
(***************************************************************************)
RetrievalCap == 20
DefaultLimit == 5
StatusInternalError == 500
StatusServiceUnavailable == 503

None == <<>>
Some(v) == <<v>>
IsNone(o) == o = <<>>
Get(o) == o[1]

(***************************************************************************)
(* JSON values and texts.                                                  *)
(***************************************************************************)
JVal(type, s, n, items, fields) ==
    [type |-> type, s |-> s, n |-> n, items |-> items, fields |-> fields]
JStr(s) == JVal("str", s, 0, <<>>, <<>>)
JNum(n) == JVal("num", "", n, <<>>, <<>>)
JNull == JVal("null", "", 0, <<>>, <<>>)
JList(items) == JVal("list", "", 0, items, <<>>)
JObj(fields) == JVal("obj", "", 0, <<>>, fields)
Member(k, v) == [k |-> k, v |-> v]

Tok(t, s, n) == [t |-> t, s |-> s, n |-> n]
Punct(t) == Tok(t, "", 0)

RECURSIVE Serialize(_)
RECURSIVE SerializeItems(_, _)
RECURSIVE SerializeMembers(_, _)
\* the token sequence of the JSON text of value v
Serialize(v) ==
    CASE v.type = "str" -> <<Tok("str", v.s, 0)>>
      [] v.type = "num" -> <<Tok("num", "", v.n)>>
      [] v.type = "null" -> <<Punct("null")>>
      [] v.type = "list" -> <<Punct("[")>> \o SerializeItems(v.items, 1) \o <<Punct("]")>>
      [] v.type = "obj" -> <<Punct("{")>> \o SerializeMembers(v.fields, 1) \o <<Punct("}")>>
SerializeItems(items, i) ==
    IF i > Len(items) THEN <<>>
    ELSE Serialize(items[i])
         \o (IF i < Len(items) THEN <<Punct(",")>> ELSE <<>>)
         \o SerializeItems(items, i + 1)
SerializeMembers(fields, i) ==
    IF i > Len(fields) THEN <<>>
    ELSE <<Tok("str", fields[i].k, 0), Punct(":")>> \o Serialize(fields[i].v)
         \o (IF i < Len(fields) THEN <<Punct(",")>> ELSE <<>>)
         \o SerializeMembers(fields, i + 1)

Parsed(v, next) == [ok |-> TRUE, val |-> v, next |-> next]
NoParse == [ok |-> FALSE, val |-> JNull, next |-> 0]

RECURSIVE ParseValue(_, _)
RECURSIVE ParseItems(_, _, _)
RECURSIVE ParseMembers(_, _, _)
\* the JSON value that starts at token i of toks
ParseValue(toks, i) ==
    IF i > Len(toks) THEN NoParse
    ELSE CASE toks[i].t = "str" -> Parsed(JStr(toks[i].s), i + 1)
           [] toks[i].t = "num" -> Parsed(JNum(toks[i].n), i + 1)
           [] toks[i].t = "null" -> Parsed(JNull, i + 1)
           [] toks[i].t = "[" ->
                IF i + 1 <= Len(toks) /\ toks[i + 1].t = "]"
                THEN Parsed(JList(<<>>), i + 2)
                ELSE ParseItems(toks, i + 1, <<>>)
           [] toks[i].t = "{" ->
                IF i + 1 <= Len(toks) /\ toks[i + 1].t = "}"
                THEN Parsed(JObj(<<>>), i + 2)
                ELSE ParseMembers(toks, i + 1, <<>>)
           [] OTHER -> NoParse
ParseItems(toks, i, acc) ==
    LET r == ParseValue(toks, i) IN
    IF ~r.ok \/ r.next > Len(toks) THEN NoParse
    ELSE CASE toks[r.next].t = "," -> ParseItems(toks, r.next + 1, Append(acc, r.val))
           [] toks[r.next].t = "]" -> Parsed(JList(Append(acc, r.val)), r.next + 1)
           [] OTHER -> NoParse
ParseMembers(toks, i, acc) ==
    IF i + 1 > Len(toks) \/ toks[i].t # "str" \/ toks[i + 1].t # ":" THEN NoParse
    ELSE LET r == ParseValue(toks, i + 2) IN
         IF ~r.ok \/ r.next > Len(toks) THEN NoParse
         ELSE CASE toks[r.next].t = "," ->
                     ParseMembers(toks, r.next + 1, Append(acc, Member(toks[i].s, r.val)))
                [] toks[r.next].t = "}" ->
                     Parsed(JObj(Append(acc, Member(toks[i].s, r.val))), r.next + 1)
                [] OTHER -> NoParse

\* json.loads: the outcome "ok" with the decoded value, "JSONDecodeError" for a
\* text that is not exactly one JSON value, "TypeError" for None
json_loads(content) ==
    IF IsNone(content) THEN [outcome |-> "TypeError", val |-> JNull]
    ELSE LET r == ParseValue(Get(content), 1) IN
         IF r.ok /\ r.next = Len(Get(content)) + 1
         THEN [outcome |-> "ok", val |-> r.val]
         ELSE [outcome |-> "JSONDecodeError", val |-> JNull]

\* a Python dict built from JSON members: the last member of a key wins
HasKey(fields, k) == \E i \in 1..Len(fields) : fields[i].k = k
Lookup(fields, k) ==
    LET i == CHOOSE j \in 1..Len(fields) :
                 /\ fields[j].k = k
                 /\ \A m \in (j + 1)..Len(fields) : fields[m].k # k
    IN fields[i].v


(***************************************************************************)
(* LLMRecommendation of the decoded data: validation of the decoded value.             *)
(***************************************************************************)
Digit == <<"0", "1", "2", "3", "4", "5", "6", "7", "8", "9">>
RECURSIVE NatToStr(_)
NatToStr(n) == IF n < 10 THEN Digit[n + 1] ELSE NatToStr(n \div 10) \o Digit[(n % 10) + 1]
\* str(n) of a Python int
IntToStr(n) == IF n < 0 THEN "-" \o NatToStr(0 - n) ELSE NatToStr(n)

\* the validator of a str field: a str is kept; a number is converted by a
\* pydantic that coerces (lax = TRUE, pydantic 1.x) and rejected by one that
\* does not (pydantic 2.x); anything else is rejected.  None is a rejection.
StrField(v, lax) ==
    CASE v.type = "str" -> Some(v.s)
      [] v.type = "num" /\ lax -> Some(IntToStr(v.n))
      [] OTHER -> None

\* the validator of a List[str] field
ListOfStrField(v, lax) ==
    IF v.type = "list" /\ \A i \in 1..Len(v.items) : ~IsNone(StrField(v.items[i], lax))
    THEN Some([i \in 1..Len(v.items) |-> Get(StrField(v.items[i], lax))])
    ELSE None

\* LLMRecommendation of the decoded data: None when the call raises (data is no mapping,
\* a required field is missing, a field fails its validator)
LLMRecommendation(data, lax) ==
    IF data.type # "obj" THEN None
    ELSE IF ~HasKey(data.fields, "recommended_game_names")
            \/ ~HasKey(data.fields, "explanation") THEN None
    ELSE LET names == ListOfStrField(Lookup(data.fields, "recommended_game_names"), lax)
             expl == StrField(Lookup(data.fields, "explanation"), lax)
         IN IF IsNone(names) \/ IsNone(expl) THEN None
            ELSE Some([recommended_game_names |-> Get(names), explanation |-> Get(expl)])


(***************************************************************************)
(* Inputs: requests, query results, completions, catalogs.                 *)
(***************************************************************************)
SeqsUpTo(S, n) == UNION {[1..k -> S] : k \in 0..n}
Min(a, b) == IF a <= b THEN a ELSE b

\* RecommendationRequest: retrieval_limit is Optional[int], so an explicit null
\* and any integer are accepted
RetrievalLimits ==
    {None} \cup {Some(n) : n \in (0 - MaxUnder)..1}
           \cup {Some(n) : n \in (RetrievalCap - 1)..(RetrievalCap + MaxOver)}
Requests ==
    {[preference |-> "strategy games for 2 players", limit |-> DefaultLimit,
      retrieval_limit |-> r] : r \in RetrievalLimits}

\* metadata of the vector store: a record holding some of the keys
MetaFull ==
    [name |-> "Catan", description |-> "trade and build", min_players |-> "3",
     max_players |-> "4", play_time_min |-> "60", play_time_max |-> "120",
     complexity |-> "2.3"]
MetaSparse == [description |-> "party game"]
Metas == {MetaFull, MetaSparse}

\* what collection.query(n_results = n) may return: no result, no metadata
\* list, an empty metadata list, an empty first list, or at most n entries
QueryResults(n) ==
    {None, Some([metadatas |-> None]), Some([metadatas |-> Some(<<>>)])}
    \cup {Some([metadatas |-> Some(<<items>>)]) :
            items \in SeqsUpTo(Metas, Min(MaxItems, IF n < 0 THEN 0 ELSE n))}

GameNames == {"Catan", "7 Wonders"}
GoodExplanation == "good for two players"
Recommendation(names, explanation) ==
    JObj(<<Member("recommended_game_names", names), Member("explanation", explanation)>>)
NamesValue(names) == JList([i \in 1..Len(names) |-> JStr(names[i])])

\* well-formed outputs of the model
GoodValues ==
    {Recommendation(NamesValue(l), JStr(GoodExplanation)) : l \in SeqsUpTo(GameNames, MaxNames)}
    \cup {JObj(<<Member("explanation", JStr("")),
                 Member("recommended_game_names", JList(<<>>)),
                 Member("confidence", JNum(1)),
                 Member("explanation", JStr(GoodExplanation))>>)}
\* JSON values of another shape
OtherValues ==
    {Recommendation(JStr("Catan"), JStr(GoodExplanation)),
     Recommendation(JNull, JStr(GoodExplanation)),
     Recommendation(JList(<<JStr("Catan"), JNull>>), JStr(GoodExplanation)),
     Recommendation(JList(<<JStr("Catan"), JNum(7)>>), JStr(GoodExplanation)),
     Recommendation(NamesValue(<<"Catan">>), JNum(42)),
     Recommendation(NamesValue(<<"Catan">>), JNull),
     Recommendation(NamesValue(<<"Catan">>), JList(<<JStr(GoodExplanation)>>)),
     JObj(<<Member("recommended_game_names", NamesValue(<<"Catan">>))>>),
     JObj(<<Member("explanation", JStr(GoodExplanation))>>),
     JObj(<<>>), JList(<<>>), JStr("Catan"), JNum(7), JNull,
     JList(<<Recommendation(NamesValue(<<"Catan">>), JStr(GoodExplanation))>>)}
SampleText == Serialize(Recommendation(NamesValue(<<"Catan">>), JStr(GoodExplanation)))
\* texts that are no JSON text: every truncation of a JSON text, stray
\* characters, text after the value, a trailing comma
BrokenTexts ==
    {SubSeq(SampleText, 1, k) : k \in 0..(Len(SampleText) - 1)}
    \cup {<<Punct("junk")>>, SampleText \o <<Punct("junk")>>,
          SampleText \o SampleText,
          <<Punct("["), Tok("str", "Catan", 0), Punct(","), Punct("]")>>,
          <<Punct("{"), Tok("str", "explanation", 0), Tok("str", "x", 0), Punct("}")>>}
\* message.content of the first choice: None or a text
Contents ==
    {None} \cup {Some(Serialize(v)) : v \in GoodValues \cup OtherValues}
           \cup {Some(t) : t \in BrokenTexts}

\* the rows of the board_games table (name is indexed, not unique)
Row(id, name) == [id |-> id, name |-> name]
Catalogs ==
    {[i \in 1..Len(ns) |-> Row(i, ns[i])] : ns \in SeqsUpTo(GameNames, MaxCatalog)}


(***************************************************************************)
(* Texts the program builds: a text is a sequence of parts, a part is a    *)
(* literal or an interpolated value.                                       *)
(***************************************************************************)
Lit(text) == [lit |-> text, quoted |-> None]
\* the interpolation of message.content (None or a text)
Quoted(content) == [lit |-> "", quoted |-> Some(content)]

MsgVectorDb == "Error connecting to vector database."
MsgNoApiKey == "server is not configured for the OpenAI API"
MsgLLMService == "LLM service error: "
MsgParse == "Error parsing recommendations from LLM."
MsgInvalidFormat == "Invalid recommendation format from LLM: "
MsgInternal == "internal error during recommendation: "

HTTPException(status_code, detail) == [status_code |-> status_code, detail |-> detail]

\* get_chroma_collection: any failure of the initialisation
CollectionError == HTTPException(StatusInternalError, <<Lit(MsgVectorDb)>>)
\* get_openai_client: no API key
ConfigurationError == HTTPException(StatusInternalError, <<Lit(MsgNoApiKey)>>)
\* faulty variant: the failure of the completion call reported as an internal error
LLMServiceErrorGeneric(exc) ==
    HTTPException(StatusInternalError, <<Lit(MsgInternal), Lit(exc)>>)
\* the handler of a failed completion call
LLMServiceError(exc) == HTTPException(StatusServiceUnavailable, <<Lit(MsgLLMService), Lit(exc)>>)
\* the handler of json.JSONDecodeError
DecodeError(content) == HTTPException(StatusInternalError, <<Lit(MsgParse)>>)
\* the handler of any other exception of the parsing step
InvalidFormatError(exc) == HTTPException(StatusInternalError, <<Lit(MsgInvalidFormat), Lit(exc)>>)
\* the outermost handler of an exception that is no HTTPException
InternalError(exc) == HTTPException(StatusInternalError, <<Lit(MsgInternal), Lit(exc)>>)

LogEntry(level, parts) == [level |-> level, parts |-> parts]

(***************************************************************************)
(* The stages.                                                             *)
(***************************************************************************)
\* faulty variant: no cap
RetrievalLimitUncapped(requested) == requested
\* faulty variant: the comparison the wrong way round
RetrievalLimitInverted(requested) ==
    IF requested >= RetrievalCap THEN requested ELSE RetrievalCap
\* the n_results of the query for a requested retrieval_limit (an int)
RetrievalLimit(requested) == IF requested <= RetrievalCap THEN requested ELSE RetrievalCap

MetaGet(meta, key, default) == IF key \in DOMAIN meta THEN meta[key] ELSE default

Line(label, a, b) == [label |-> label, a |-> a, b |-> b]
\* game_info of the i-th entry (i counts from 0)
GameInfo(i, meta) ==
    <<Line(IntToStr(i + 1) \o ". name", MetaGet(meta, "name", "unknown"), ""),
      Line("description", MetaGet(meta, "description", "none"), ""),
      Line("players", MetaGet(meta, "min_players", "?"), MetaGet(meta, "max_players", "?")),
      Line("play time", MetaGet(meta, "play_time_min", "?"), MetaGet(meta, "play_time_max", "?")),
      Line("complexity", MetaGet(meta, "complexity", "?"), "")>>
BlankLine == Line("", "", "")
FallbackLine == Line("no closely matching games in the database; recommend from general knowledge", "", "")

RECURSIVE JoinInfos(_, _)
\* "\n\n".join of the game_info of metas[i..]
JoinInfos(metas, i) ==
    IF i > Len(metas) THEN <<>>
    ELSE GameInfo(i - 1, metas[i])
         \o (IF i < Len(metas) THEN <<BlankLine>> ELSE <<>>)
         \o JoinInfos(metas, i + 1)

\* the truth value of chroma_results and its metadatas and its first list
HasMatches(results) ==
    /\ ~IsNone(results)
    /\ ~IsNone(Get(results).metadatas)
    /\ Len(Get(Get(results).metadatas)) > 0
    /\ Len(Get(Get(results).metadatas)[1]) > 0

\* faulty variant: no fallback notice, the context block is left empty
FormatContextNoFallback(results) ==
    IF HasMatches(results) THEN JoinInfos(Get(Get(results).metadatas)[1], 1)
    ELSE <<>>
\* context_games_str
FormatContext(results) ==
    IF HasMatches(results) THEN JoinInfos(Get(Get(results).metadatas)[1], 1)
    ELSE <<FallbackLine>>

\* the prompt
BuildPrompt(req, context) ==
    <<Line("recommend games", IntToStr(req.limit), ""),
      Line("preference", req.preference, ""),
      Line("BEGIN CONTEXT GAMES", "", "")>>
    \o context
    \o <<Line("END CONTEXT GAMES", "", ""),
         Line("pick at most", IntToStr(req.limit), ""),
         Line("return JSON", "recommended_game_names", "explanation")>>

\* crud.board_game.get_by_name: the first row of that exact name, or None
get_by_name(db, name) ==
    IF \E i \in 1..Len(db) : db[i].name = name
    THEN Some(db[CHOOSE i \in 1..Len(db) :
                     db[i].name = name /\ \A j \in 1..(i - 1) : db[j].name # name])
    ELSE None
\* schemas.BoardGame.from_orm: the schema object of a row
from_orm(row) == [id |-> row.id, name |-> row.name]

RECURSIVE FetchGamesDedup(_, _, _, _)
\* faulty variant: a game already fetched is not appended again
FetchGamesDedup(db, names, i, acc) ==
    IF i > Len(names) THEN acc
    ELSE LET game_obj == get_by_name(db, names[i]) IN
         FetchGamesDedup(db, names, i + 1,
                         IF ~IsNone(game_obj)
                            /\ \A k \in 1..Len(acc) : acc[k] # from_orm(Get(game_obj))
                         THEN Append(acc, from_orm(Get(game_obj))) ELSE acc)

RECURSIVE FetchGames(_, _, _, _)
\* the loop over recommended_game_names from index i, acc being
\* recommended_games_from_db so far
FetchGames(db, names, i, acc) ==
    IF i > Len(names) THEN acc
    ELSE LET game_obj == get_by_name(db, names[i]) IN
         FetchGames(db, names, i + 1,
                    IF ~IsNone(game_obj) THEN Append(acc, from_orm(Get(game_obj))) ELSE acc)

RECURSIVE FetchWarnings(_, _, _)
\* the warnings the loop logs
FetchWarnings(db, names, i) ==
    IF i > Len(names) THEN <<>>
    ELSE (IF IsNone(get_by_name(db, names[i]))
          THEN <<LogEntry("warning", <<Lit("not found in the main database"), Lit(names[i])>>)>>
          ELSE <<>>)
         \o FetchWarnings(db, names, i + 1)

RecommendationResponse(recommendations, explanation) ==
    [recommendations |-> recommendations, explanation |-> explanation]


(***************************************************************************)
(* The state of one request.                                               *)
(***************************************************************************)
VARIABLES
    request,                    \* the RecommendationRequest
    db,                         \* the rows of the board_games table
    pc,                         \* the position in recommend_board_games
    trace,                      \* the stages entered so far, in order
    n_results,                  \* the n_results passed to the query, if made
    queryCalls,                 \* the calls of chroma_collection.query
    completionCalls,            \* the calls of client.chat.completions.create
    chroma_results,
    context_games_str,
    prompt,
    sent_prompt,                \* the user message of the completion call
    llm_response_content,
    llm_recommendation,
    lookups,                    \* the names passed to get_by_name, in order
    recommended_games_from_db,
    response,                   \* the RecommendationResponse returned
    error,                      \* the HTTPException raised to the caller
    log                         \* the error and warning records logged

vars ==
    <<request, db, pc, trace, n_results, queryCalls, completionCalls,
      chroma_results, context_games_str, prompt, sent_prompt,
      llm_response_content, llm_recommendation, lookups,
      recommended_games_from_db, response, error, log>>

retrievalVars == <<n_results, queryCalls, chroma_results>>
promptVars == <<context_games_str, prompt>>
modelVars == <<completionCalls, sent_prompt, llm_response_content>>
catalogVars == <<lookups, recommended_games_from_db>>

StageOrder ==
    <<"Retrieve", "BuildPrompt", "CallModel", "ParseResponse", "Reconcile", "Respond">>

Init ==
    /\ request \in Requests
    /\ db \in Catalogs
    /\ pc = "Start"
    /\ trace = <<>>
    /\ n_results = None
    /\ queryCalls = 0
    /\ completionCalls = 0
    /\ chroma_results = None
    /\ context_games_str = <<>>
    /\ prompt = None
    /\ sent_prompt = None
    /\ llm_response_content = None
    /\ llm_recommendation = None
    /\ lookups = <<>>
    /\ recommended_games_from_db = <<>>
    /\ response = None
    /\ error = None
    /\ log = <<>>

\* raise e to the caller: the request is over
Raise(e, entry) ==
    /\ error' = Some(e)
    /\ log' = Append(log, entry)
    /\ pc' = "Failed"
    /\ UNCHANGED <<request, db, response>>

\* the faults of the vector store and of the completion service
QueryFaults == {"query failed", "query timed out"}
CompletionFaults == {"APIConnectionError", "APITimeoutError", "IndexError: no choices"}

\* 1. get_chroma_collection returns the collection
GetCollection ==
    /\ pc = "Start"
    /\ pc' = "Query"
    /\ trace' = Append(trace, "Retrieve")
    /\ UNCHANGED <<request, db, response, error, log, retrievalVars, promptVars,
                   modelVars, llm_recommendation, catalogVars>>

\* 1. get_chroma_collection fails: its own handler raises the HTTPException
GetCollectionFail ==
    /\ pc = "Start"
    /\ trace' = Append(trace, "Retrieve")
    /\ Raise(CollectionError,
             LogEntry("error", <<Lit("Failed to initialize ChromaDB collection")>>))
    /\ UNCHANGED <<retrievalVars, promptVars, modelVars, llm_recommendation, catalogVars>>

\* 2. retrieval_limit is None: the comparison with 20 raises TypeError
CapLimitTypeError ==
    /\ pc = "Query"
    /\ IsNone(request.retrieval_limit)
    /\ Raise(InternalError("TypeError"),
             LogEntry("error", <<Lit("unknown error during RAG recommendation"), Lit("TypeError")>>))
    /\ UNCHANGED <<trace, retrievalVars, promptVars, modelVars, llm_recommendation,
                   catalogVars>>

\* 2. the query returns
Query ==
    /\ pc = "Query"
    /\ ~IsNone(request.retrieval_limit)
    /\ n_results' = Some(RetrievalLimit(Get(request.retrieval_limit)))
    /\ queryCalls' = queryCalls + 1
    /\ \E res \in QueryResults(RetrievalLimit(Get(request.retrieval_limit))) :
           chroma_results' = res
    /\ pc' = "BuildPrompt"
    /\ UNCHANGED <<request, db, trace, response, error, log, promptVars, modelVars,
                   llm_recommendation, catalogVars>>

\* 2. the query raises: the outermost handler raises the HTTPException
QueryFail ==
    /\ pc = "Query"
    /\ ~IsNone(request.retrieval_limit)
    /\ n_results' = Some(RetrievalLimit(Get(request.retrieval_limit)))
    /\ queryCalls' = queryCalls + 1
    /\ \E exc \in QueryFaults :
           Raise(InternalError(exc),
                 LogEntry("error", <<Lit("unknown error during RAG recommendation"), Lit(exc)>>))
    /\ UNCHANGED <<trace, chroma_results, promptVars, modelVars, llm_recommendation,
                   catalogVars>>

\* 3. and 4. the context and the prompt
Build ==
    /\ pc = "BuildPrompt"
    /\ context_games_str' = FormatContext(chroma_results)
    /\ prompt' = Some(BuildPrompt(request, FormatContext(chroma_results)))
    /\ pc' = "CallModel"
    /\ trace' = Append(trace, "BuildPrompt")
    /\ UNCHANGED <<request, db, response, error, log, retrievalVars, modelVars,
                   llm_recommendation, catalogVars>>

\* 5. get_openai_client: no API key is configured
GetClientFail ==
    /\ pc = "CallModel"
    /\ trace' = Append(trace, "CallModel")
    /\ Raise(ConfigurationError, LogEntry("error", <<Lit("OpenAI API key is not configured")>>))
    /\ UNCHANGED <<retrievalVars, promptVars, modelVars, llm_recommendation, catalogVars>>

\* 5. the completion call returns a first choice
CallModel ==
    /\ pc = "CallModel"
    /\ trace' = Append(trace, "CallModel")
    /\ completionCalls' = completionCalls + 1
    /\ sent_prompt' = prompt
    /\ \E content \in Contents : llm_response_content' = content
    /\ pc' = "ParseResponse"
    /\ UNCHANGED <<request, db, response, error, log, retrievalVars, promptVars,
                   llm_recommendation, catalogVars>>

\* faulty variant: a failed completion call is tried again
CallModelRetry ==
    /\ pc = "CallModel"
    /\ completionCalls < 3
    /\ completionCalls' = completionCalls + 1
    /\ sent_prompt' = prompt
    /\ UNCHANGED <<request, db, pc, trace, response, error, log, retrievalVars,
                   promptVars, llm_response_content, llm_recommendation, catalogVars>>

\* 5. the completion call raises, or its answer holds no choice
CallModelFail ==
    /\ pc = "CallModel"
    /\ trace' = Append(trace, "CallModel")
    /\ completionCalls' = completionCalls + 1
    /\ sent_prompt' = prompt
    /\ \E exc \in CompletionFaults :
           Raise(LLMServiceError(exc),
                 LogEntry("error", <<Lit("OpenAI API call failed"), Lit(exc)>>))
    /\ UNCHANGED <<retrievalVars, promptVars, llm_response_content, llm_recommendation,
                   catalogVars>>

\* json.loads(llm_response_content)
Decoded == json_loads(llm_response_content)
\* the three ways step 6 ends, under a pydantic that coerces (lax) or not
DecodeFails == Decoded.outcome = "JSONDecodeError"
ValidationFails(lax) ==
    \/ Decoded.outcome = "TypeError"
    \/ Decoded.outcome = "ok" /\ IsNone(LLMRecommendation(Decoded.val, lax))
Validates(lax) ==
    Decoded.outcome = "ok" /\ ~IsNone(LLMRecommendation(Decoded.val, lax))

\* 6. json.loads raises JSONDecodeError
ParseDecodeError ==
    /\ pc = "ParseResponse"
    /\ DecodeFails
    /\ trace' = Append(trace, "ParseResponse")
    /\ Raise(DecodeError(llm_response_content),
             LogEntry("error", <<Lit("Failed to parse LLM JSON response"),
                                 Quoted(llm_response_content)>>))
    /\ UNCHANGED <<retrievalVars, promptVars, modelVars, llm_recommendation, catalogVars>>

\* 6. json.loads or LLMRecommendation raises another exception
ParseInvalid ==
    /\ pc = "ParseResponse"
    /\ \E lax \in BOOLEAN : ValidationFails(lax)
    /\ trace' = Append(trace, "ParseResponse")
    /\ Raise(InvalidFormatError(IF Decoded.outcome = "TypeError"
                                THEN "TypeError: the JSON object must be str, not NoneType"
                                ELSE "validation error"),
             LogEntry("error", <<Lit("Invalid LLM response structure"),
                                 Quoted(llm_response_content)>>))
    /\ UNCHANGED <<retrievalVars, promptVars, modelVars, llm_recommendation, catalogVars>>

\* 6. the model output decodes and validates
ParseValid ==
    /\ pc = "ParseResponse"
    /\ \E lax \in BOOLEAN :
           /\ Validates(lax)
           /\ llm_recommendation' = LLMRecommendation(Decoded.val, lax)
    /\ trace' = Append(trace, "ParseResponse")
    /\ pc' = "Reconcile"
    /\ UNCHANGED <<request, db, response, error, log, retrievalVars, promptVars,
                   modelVars, catalogVars>>

\* faulty variant: a recommended name that is not in the catalog fails the request
ReconcileStrict ==
    /\ pc = "Reconcile"
    /\ trace' = Append(trace, "Reconcile")
    /\ LET names == Get(llm_recommendation).recommended_game_names IN
           /\ lookups' = names
           /\ IF \A i \in 1..Len(names) : ~IsNone(get_by_name(db, names[i]))
              THEN /\ recommended_games_from_db' = FetchGames(db, names, 1, <<>>)
                   /\ pc' = "Respond"
                   /\ UNCHANGED <<error, log>>
              ELSE /\ error' = Some(HTTPException(404, <<Lit("board game not found")>>))
                   /\ pc' = "Failed"
                   /\ UNCHANGED <<recommended_games_from_db, log>>
    /\ UNCHANGED <<request, db, response, retrievalVars, promptVars, modelVars,
                   llm_recommendation>>

\* 7. the catalog lookups
Reconcile ==
    /\ pc = "Reconcile"
    /\ LET names == Get(llm_recommendation).recommended_game_names IN
           /\ lookups' = names
           /\ recommended_games_from_db' =
                  (IF names # <<>> THEN FetchGames(db, names, 1, <<>>) ELSE <<>>)
           /\ log' = log \o FetchWarnings(db, names, 1)
    /\ trace' = Append(trace, "Reconcile")
    /\ pc' = "Respond"
    /\ UNCHANGED <<request, db, response, error, retrievalVars, promptVars, modelVars,
                   llm_recommendation>>

\* 8. the response
Respond ==
    /\ pc = "Respond"
    /\ response' = Some(RecommendationResponse(recommended_games_from_db,
                                               Get(llm_recommendation).explanation))
    /\ trace' = Append(trace, "Respond")
    /\ pc' = "Responded"
    /\ UNCHANGED <<request, db, error, log, retrievalVars, promptVars, modelVars,
                   llm_recommendation, catalogVars>>

Next ==
    \/ GetCollection
    \/ GetCollectionFail
    \/ CapLimitTypeError
    \/ Query
    \/ QueryFail
    \/ Build
    \/ GetClientFail
    \/ CallModel
    \/ CallModelFail
    \/ ParseDecodeError
    \/ ParseInvalid
    \/ ParseValid
    \/ Reconcile
    \/ Respond

Spec == Init /\ [][Next]_vars


(***************************************************************************)
(* Vocabulary of the properties.                                           *)
(***************************************************************************)
\* the error category (section 7 of the specification) of an HTTPException
Kind(e) ==
    CASE e.detail[1].lit = MsgVectorDb -> "RetrievalInfrastructureError"
      [] e.detail[1].lit = MsgNoApiKey -> "ConfigurationError"
      [] e.detail[1].lit = MsgLLMService -> "ModelServiceError"
      [] e.detail[1].lit = MsgParse -> "MalformedModelOutputError"
      [] e.detail[1].lit = MsgInvalidFormat -> "InvalidRecommendationShapeError"
      [] OTHER -> "InternalError"

Terminal == pc \in {"Responded", "Failed"}
\* the stage a failed request failed in
FailedStage == trace[Len(trace)]
Entered(stage) == \E i \in 1..Len(trace) : trace[i] = stage
IsPrefix(s, t) == Len(s) <= Len(t) /\ \A i \in 1..Len(s) : s[i] = t[i]
Contains(seq, x) == \E i \in 1..Len(seq) : seq[i] = x
\* the text of an error quotes an interpolated model output
QuotesContent(e) == \E i \in 1..Len(e.detail) : ~IsNone(e.detail[i].quoted)

\* C1: the stages run in the fixed order Retrieve, BuildPrompt, CallModel,
\* ParseResponse, Reconcile, Respond; the vector query and the completion call
\* are each made at most once; once a stage has failed nothing later runs (no
\* completion call after a retrieval failure, no catalog lookup after a
\* completion or parse failure); a request that has not ended can take a step,
\* and it ends either Responded or Failed with an error, never both.
C1_FixedOrderSingleAttempt ==
    /\ IsPrefix(trace, StageOrder)
    /\ queryCalls <= 1 /\ completionCalls <= 1
    /\ queryCalls = 1 => Entered("Retrieve")
    /\ completionCalls = 1 => Entered("BuildPrompt") /\ Entered("CallModel")
    /\ ~IsNone(error) => pc = "Failed"
    /\ ~IsNone(response) => pc = "Responded"
    /\ pc = "Failed" => ~IsNone(error) /\ IsNone(response)
    /\ pc = "Responded" => IsNone(error) /\ ~IsNone(response) /\ trace = StageOrder
    /\ pc = "Failed" /\ FailedStage = "Retrieve" =>
           completionCalls = 0 /\ IsNone(sent_prompt) /\ lookups = <<>>
    /\ pc = "Failed" /\ FailedStage \in {"CallModel", "ParseResponse"} =>
           lookups = <<>> /\ recommended_games_from_db = <<>>
    /\ pc \in {"Start", "Query", "BuildPrompt", "CallModel", "Reconcile", "Respond"} =>
           ENABLED (GetCollection \/ CapLimitTypeError \/ Query \/ Build \/ CallModel
                    \/ Reconcile \/ Respond)
    /\ pc = "ParseResponse" =>
           DecodeFails \/ \E lax \in BOOLEAN : ValidationFails(lax) \/ Validates(lax)
    /\ Terminal => ~ENABLED Next
C1_Witness ==
    pc = "Failed" /\ FailedStage = "ParseResponse" /\ queryCalls = 1 /\ completionCalls = 1

\* the rows of db named name, and the first of them
RowsNamed(name) == {i \in 1..Len(db) : db[i].name = name}
FirstRowNamed(name) == db[CHOOSE i \in RowsNamed(name) : \A j \in RowsNamed(name) : i <= j]
IsMatched(name) == RowsNamed(name) # {}
MatchedNames == SelectSeq(lookups, IsMatched)

\* C2: the recommendations are exactly the catalog records of the recommended
\* names that have an exact-name match, in the order of the model's list, one
\* record per occurrence of a matching name, every unmatched name dropped.
C2_ReconcileKeepsOrderAndDuplicates ==
    pc \in {"Respond", "Responded"} =>
        /\ lookups = Get(llm_recommendation).recommended_game_names
        /\ Len(recommended_games_from_db) = Len(MatchedNames)
        /\ \A i \in 1..Len(MatchedNames) :
               /\ recommended_games_from_db[i].name = MatchedNames[i]
               /\ recommended_games_from_db[i].id = FirstRowNamed(MatchedNames[i]).id
        /\ pc = "Responded" => Get(response).recommendations = recommended_games_from_db
C2_Witness ==
    /\ pc = "Responded"
    /\ lookups = <<"Catan", "Catan">>
    /\ Len(Get(response).recommendations) = 2

\* C3: once the model output has parsed, the request cannot fail: it goes on
\* to Responded whatever the number of names that resolve (none included), and
\* the explanation of the response is the explanation of the parsed output.
C3_UnmatchedNamesNeverFail ==
    /\ ~IsNone(llm_recommendation) =>
           /\ pc \in {"Reconcile", "Respond", "Responded"}
           /\ IsNone(error)
    /\ pc = "Reconcile" => ENABLED Reconcile
    /\ pc = "Respond" => ENABLED Respond
    /\ pc = "Responded" =>
           /\ Get(response).explanation = Get(llm_recommendation).explanation
           /\ Len(Get(response).recommendations) <= Len(lookups)
           /\ Lookup(Decoded.val.fields, "explanation").type = "str" =>
                  Get(response).explanation = Lookup(Decoded.val.fields, "explanation").s
C3_Witness ==
    /\ pc = "Responded"
    /\ lookups # <<>>
    /\ Get(response).recommendations = <<>>
    /\ Get(response).explanation = GoodExplanation

\* C4: the n_results of the query is min(requested, 20): 20 when more than 20
\* is requested, the requested value otherwise.
C4_RetrievalLimitIsMin ==
    /\ queryCalls = 1 => ~IsNone(n_results)
    /\ ~IsNone(n_results) =>
           /\ ~IsNone(request.retrieval_limit)
           /\ Get(request.retrieval_limit) > 20 => Get(n_results) = 20
           /\ Get(request.retrieval_limit) <= 20 => Get(n_results) = Get(request.retrieval_limit)
C4_Witness ==
    queryCalls = 1 /\ request.retrieval_limit = Some(22) /\ n_results = Some(20)

\* C5 as stated: the n_results of the query lies between 0 and 20.
C5_ClampedToZeroTwenty ==
    ~IsNone(n_results) => 0 <= Get(n_results) /\ Get(n_results) <= 20
\* C5 as amended: the n_results of the query is at most 20 and has no lower
\* bound: a negative retrieval_limit is passed to the query as it is.
C5_CappedAboveOnly ==
    ~IsNone(n_results) =>
        /\ Get(n_results) <= 20
        /\ Get(request.retrieval_limit) < 0 => Get(n_results) = Get(request.retrieval_limit)
C5_Witness ==
    queryCalls = 1 /\ request.retrieval_limit = Some(-1) /\ n_results = Some(-1)

\* C6: when the completion call throws, the request ends Failed with
\* ModelServiceError (status 503) after that one attempt, with no response, no
\* parsed recommendation or explanation, and no catalog lookup.
C6_CompletionFailureIs503 ==
    pc = "Failed" /\ FailedStage = "CallModel" /\ completionCalls >= 1 =>
        /\ completionCalls = 1
        /\ Get(error).status_code = 503
        /\ Kind(Get(error)) = "ModelServiceError"
        /\ ~QuotesContent(Get(error))
        /\ IsNone(response)
        /\ IsNone(llm_recommendation)
        /\ lookups = <<>> /\ recommended_games_from_db = <<>>
C6_Witness ==
    /\ pc = "Failed" /\ FailedStage = "CallModel" /\ completionCalls = 1
    /\ Get(error).detail[2] = Lit("APITimeoutError")

\* C7 as stated: a model response that does not decode as JSON (no text
\* content included) ends the request Failed with MalformedModelOutputError,
\* and the error does not quote the model's text.
C7_UndecodableIsMalformed ==
    Entered("ParseResponse") /\ Decoded.outcome # "ok" =>
        /\ pc = "Failed"
        /\ Kind(Get(error)) = "MalformedModelOutputError"
        /\ ~QuotesContent(Get(error))

\* a decoded value of the shape of LLMRecommendation: an object whose
\* recommended_game_names is a list of strings and whose explanation is a string
WellShaped(v) ==
    /\ v.type = "obj"
    /\ HasKey(v.fields, "recommended_game_names")
    /\ HasKey(v.fields, "explanation")
    /\ Lookup(v.fields, "explanation").type = "str"
    /\ Lookup(v.fields, "recommended_game_names").type = "list"
    /\ \A i \in 1..Len(Lookup(v.fields, "recommended_game_names").items) :
           Lookup(v.fields, "recommended_game_names").items[i].type = "str"

\* C8 as stated: a model response that decodes as JSON but has not the shape
\* of LLMRecommendation ends the request Failed with
\* InvalidRecommendationShapeError, with no catalog lookup and no response.
C8_WrongShapeIsHardStop ==
    Entered("ParseResponse") /\ Decoded.outcome = "ok" /\ ~WellShaped(Decoded.val) =>
        /\ pc = "Failed"
        /\ Kind(Get(error)) = "InvalidRecommendationShapeError"
        /\ IsNone(llm_recommendation)
        /\ lookups = <<>>
        /\ IsNone(response)

\* C9 as stated: every failure of the retrieval stage of a request with an
\* integer retrieval_limit (the collection cannot be initialised, the query
\* fails or times out) ends the request Failed with RetrievalInfrastructureError.
C9_RetrievalFailureKind ==
    pc = "Failed" /\ FailedStage = "Retrieve" /\ ~IsNone(request.retrieval_limit) =>
        Kind(Get(error)) = "RetrievalInfrastructureError"

\* the query returned no match: no result, no metadata list, an empty
\* metadata list or an empty first list
NoMatches ==
    \/ chroma_results = None
    \/ Get(chroma_results).metadatas = None
    \/ Get(Get(chroma_results).metadatas) = <<>>
    \/ Get(Get(chroma_results).metadatas)[1] = <<>>
Retrieved == Get(Get(chroma_results).metadatas)[1]
Ordinal == <<"1. name", "2. name", "3. name", "4. name">>

\* C10: an empty retrieval result never fails the request: the prompt then
\* holds the general-knowledge instruction as its context block, which is
\* never empty, and the request goes on to the completion call; a non-empty
\* result gives one numbered entry per item, counted from 1 in retrieval
\* order, and no fallback instruction.
C10_FallbackOrNumberedContext ==
    /\ pc = "BuildPrompt" => ENABLED Build
    /\ pc = "Failed" => FailedStage # "BuildPrompt"
    /\ pc = "CallModel" => ENABLED CallModel
    /\ Entered("BuildPrompt") =>
           /\ context_games_str # <<>>
           /\ Get(prompt)[3] = Line("BEGIN CONTEXT GAMES", "", "")
           /\ SubSeq(Get(prompt), 4, 3 + Len(context_games_str)) = context_games_str
           /\ Get(prompt)[4 + Len(context_games_str)] = Line("END CONTEXT GAMES", "", "")
           /\ completionCalls = 1 => sent_prompt = prompt
           /\ NoMatches => context_games_str = <<FallbackLine>>
           /\ ~NoMatches =>
                  /\ ~Contains(Get(prompt), FallbackLine)
                  /\ Len(context_games_str) = 6 * Len(Retrieved) - 1
                  /\ \A k \in 1..Len(Retrieved) :
                         /\ context_games_str[6 * (k - 1) + 1].label = Ordinal[k]
                         /\ context_games_str[6 * (k - 1) + 1].a =
                                (IF "name" \in DOMAIN Retrieved[k]
                                 THEN Retrieved[k].name ELSE "unknown")
                         /\ context_games_str[6 * (k - 1) + 2].a =
                                (IF "description" \in DOMAIN Retrieved[k]
                                 THEN Retrieved[k].description ELSE "none")
                         /\ k < Len(Retrieved) => context_games_str[6 * k] = BlankLine
C10_Witness ==
    /\ completionCalls = 1
    /\ chroma_results = Some([metadatas |-> Some(<<<<>>>>)])
    /\ Contains(Get(sent_prompt), FallbackLine)

====
